---------------------------- MODULE Spec2Model ----------------------------
(***************************************************************************)
(* Model of the spreadsheet-backed persistence layer of app.py: the menu   *)
(* catalog (menu.xlsx), the bill ledger (bills.xlsx) and the Flask         *)
(* handlers that read and write them.                                      *)
(*                                                                         *)
(* A workbook file is a record [exists, rows]: rows is the sequence of     *)
(* sheet rows, the header row included, each row a sequence of cells.      *)
(* A cell (and a JSON value of a request) is a record [t, n, s]:           *)
(*   t = "none"   Python None (an empty cell, JSON null)                   *)
(*   t = "num"    a number, n its value                                    *)
(*   t = "str"    a string, s its text                                     *)
(*   t = "absent" a key that is missing from a JSON object                 *)
(* The text of a string is a sequence of tokens: a blank " ", a digit      *)
(* "0".."9", a sign "-", or a run of other non-blank characters ("Tea").   *)
(* Numbers are integers; decimal fractions are outside the input domain.   *)
(***************************************************************************)
EXTENDS Integers, Sequences, FiniteSets, TLC

VARIABLES
    menuFile,   \* menu.xlsx
    billsFile,  \* bills.xlsx
    rowOp,      \* history: for each sheet row of bills.xlsx, the append that wrote it (0: none)
    nOps,       \* history: number of append_bill_to_xlsx calls that wrote rows so far
    appended,   \* history: the integer Bill Nos of the bills appended so far
    last,       \* history: the last completed request, its input and its response
    procs       \* per in-flight request: position and local variables

vars == <<menuFile, billsFile, rowOp, nOps, appended, last, procs>>

----------------------------------------------------------------------------
(* Values *)

None == [t |-> "none", n |-> 0, s |-> <<>>]
Absent == [t |-> "absent", n |-> 0, s |-> <<>>]
Num(k) == [t |-> "num", n |-> k, s |-> <<>>]
Str(x) == [t |-> "str", n |-> 0, s |-> x]

Blank == " "
Digits == <<"0", "1", "2", "3", "4", "5", "6", "7", "8", "9">>
DigitSet == {Digits[i] : i \in 1..10}
DigitVal(c) == (CHOOSE i \in 1..10 : Digits[i] = c) - 1

Max2(a, b) == IF a > b THEN a ELSE b
Min2(a, b) == IF a < b THEN a ELSE b

\* str.strip(): leading and trailing whitespace removed
RECURSIVE LStrip(_)
LStrip(x) == IF x # <<>> /\ Head(x) = Blank THEN LStrip(Tail(x)) ELSE x
RECURSIVE RStrip(_)
RStrip(x) ==
    IF x # <<>> /\ x[Len(x)] = Blank THEN RStrip(SubSeq(x, 1, Len(x) - 1)) ELSE x
Strip(x) == RStrip(LStrip(x))

IsDigits(x) == x # <<>> /\ \A i \in 1..Len(x) : x[i] \in DigitSet
RECURSIVE DigitsVal(_)
DigitsVal(x) ==
    IF x = <<>> THEN 0
    ELSE 10 * DigitsVal(SubSeq(x, 1, Len(x) - 1)) + DigitVal(x[Len(x)])

\* int("...") / float("...") of a string: surrounding whitespace is ignored, an
\* optional sign, then digits; anything else raises ValueError (ok = FALSE)
ParseNum(x) ==
    LET u == Strip(x) IN
    IF IsDigits(u) THEN [ok |-> TRUE, n |-> DigitsVal(u)]
    ELSE IF u # <<>> /\ Head(u) = "-" /\ IsDigits(Tail(u))
         THEN [ok |-> TRUE, n |-> 0 - DigitsVal(Tail(u))]
    ELSE [ok |-> FALSE, n |-> 0]

\* int(v): TypeError for None, ValueError for a string that is no integer literal
PyInt(v) ==
    IF v.t = "num" THEN [ok |-> TRUE, n |-> v.n]
    ELSE IF v.t = "str" THEN ParseNum(v.s)
    ELSE [ok |-> FALSE, n |-> 0]

\* float(v), on the same domain
PyFloat(v) ==
    IF v.t = "num" THEN [ok |-> TRUE, n |-> v.n]
    ELSE IF v.t = "str" THEN ParseNum(v.s)
    ELSE [ok |-> FALSE, n |-> 0]

RECURSIVE NatToStr(_)
NatToStr(k) ==
    IF k < 10 THEN <<Digits[k + 1]>>
    ELSE NatToStr(k \div 10) \o <<Digits[(k % 10) + 1]>>

\* str(v)
PyStr(v) ==
    IF v.t = "str" THEN v.s
    ELSE IF v.t = "num"
         THEN (IF v.n < 0 THEN <<"-">> \o NatToStr(0 - v.n) ELSE NatToStr(v.n))
    ELSE <<"None">>

\* bool(v): None, 0 and "" are falsy
Truthy(v) ==
    IF v.t = "num" THEN v.n # 0
    ELSE IF v.t = "str" THEN v.s # <<>>
    ELSE FALSE

\* dict.get(key, default)
Get(v, default) == IF v = Absent THEN default ELSE v

\* x or y
Or(v, w) == IF Truthy(v) THEN v ELSE w

----------------------------------------------------------------------------
(* Workbooks *)

NoFile == [exists |-> FALSE, rows |-> <<>>]
Workbook(rows) == [exists |-> TRUE, rows |-> rows]

MenuHeader == <<Str(<<"Category">>), Str(<<"Item", Blank, "Name">>), Str(<<"Price">>)>>
BillsHeader ==
    <<Str(<<"Bill", Blank, "No">>), Str(<<"Date", Blank, "&", Blank, "Time">>),
      Str(<<"Item", Blank, "Name">>), Str(<<"Qty">>), Str(<<"Rate">>),
      Str(<<"Amount">>), Str(<<"Total">>), Str(<<"Payment", Blank, "Method">>),
      Str(<<"Table">>)>>

RECURSIVE MaxWidth(_)
MaxWidth(rows) ==
    IF rows = <<>> THEN 0 ELSE Max2(Len(Head(rows)), MaxWidth(Tail(rows)))

PadTo(row, w) == [j \in 1..Max2(w, Len(row)) |-> IF j <= Len(row) THEN row[j] ELSE None]

\* sheet.iter_rows(values_only=True): every row has the sheet's width, the
\* cells a row does not hold are None
IterRows(rows) == [i \in 1..Len(rows) |-> PadTo(rows[i], MaxWidth(rows))]

ensure_menu_file(f) == IF f.exists THEN f ELSE Workbook(<<MenuHeader>>)
ensure_bills_file(f) == IF f.exists THEN f ELSE Workbook(<<BillsHeader>>)

----------------------------------------------------------------------------
(* The menu catalog.  A menu dict is a sequence of [cat, items] entries in   *)
(* insertion order; an item is [name, price].                               *)

Uncategorized == <<"Uncategorized">>

\* SetDefaultAppend written as data.setdefault(cat, [item]): a category that is
\* already there keeps its items and the new one is not appended
SetDefaultNoAppend(data, cat, item) ==
    IF \E i \in 1..Len(data) : data[i].cat = cat
    THEN data
    ELSE Append(data, [cat |-> cat, items |-> <<item>>])

\* data.setdefault(cat, []).append(item)
SetDefaultAppend(data, cat, item) ==
    IF \E i \in 1..Len(data) : data[i].cat = cat
    THEN [i \in 1..Len(data) |->
            IF data[i].cat = cat
            THEN [data[i] EXCEPT !.items = Append(@, item)]
            ELSE data[i]]
    ELSE Append(data, [cat |-> cat, items |-> <<item>>])

\* PriceCell without the default: a missing or blank third cell stays blank
PriceCellNoDefault(cells) == IF Len(cells) >= 3 THEN cells[3] ELSE None

\* the price cell a row is read with: a missing or blank third cell reads as 0
PriceCell(cells) ==
    IF Len(cells) >= 3 /\ cells[3] \notin {None, Str(<<>>)} THEN cells[3] ELSE Num(0)

\* one pass of the loop of load_menu_from_xlsx over the row `row`
LoadMenuRow(data, row) ==
    LET cells == SubSeq(row, 1, Min2(3, Len(row))) IN
    IF Len(cells) < 2 THEN data
    ELSE LET cat   == Strip(PyStr(IF cells[1] # None THEN cells[1] ELSE Str(<<>>)))
             name  == Strip(PyStr(IF cells[2] # None THEN cells[2] ELSE Str(<<>>)))
             price == PyFloat(PriceCell(cells))
         IN IF ~price.ok THEN data
            ELSE IF name = <<>> THEN data
            ELSE SetDefaultAppend(data, IF cat # <<>> THEN cat ELSE Uncategorized,
                                  [name |-> name, price |-> price.n])

RECURSIVE LoadMenuRows(_, _, _)
LoadMenuRows(rows, idx, data) ==
    IF idx > Len(rows) THEN data
    ELSE IF idx = 1 THEN LoadMenuRows(rows, idx + 1, data)
    ELSE LoadMenuRows(rows, idx + 1, LoadMenuRow(data, rows[idx]))

\* load_menu_from_xlsx(): the file after ensure_menu_file() and the dict read
load_menu_from_xlsx(f) ==
    LET g == ensure_menu_file(f) IN
    [file |-> g, data |-> LoadMenuRows(IterRows(g.rows), 1, <<>>)]

RECURSIVE MenuRows(_)
MenuRows(menu) ==
    IF menu = <<>> THEN <<>>
    ELSE [k \in 1..Len(Head(menu).items) |->
            <<Str(Head(menu).cat), Str(Head(menu).items[k].name),
              Num(Head(menu).items[k].price)>>]
         \o MenuRows(Tail(menu))

\* write_menu_to_xlsx without the header row
WriteMenuNoHeader(menu) == Workbook(MenuRows(menu))

\* write_menu_to_xlsx(menu_dict): a new workbook replaces the file
write_menu_to_xlsx(menu) == Workbook(<<MenuHeader>> \o MenuRows(menu))

----------------------------------------------------------------------------
(* The bill ledger.  A ledger row is                                        *)
(* <<Bill No, Date & Time, Item Name, Qty, Rate, Amount, Total, Payment     *)
(*   Method, Table>>.  A bill_obj is a record [billNo, dateTime, table,     *)
(* payment, total, items]; items is [t, v] with t = "list" (v the list),   *)
(* "absent" (no such key) or "other" (a JSON value that is no list).       *)

List(x) == [t |-> "list", v |-> x]
ItemsAbsent == [t |-> "absent", v |-> <<>>]
NotAList == [t |-> "other", v |-> <<>>]

\* bill_obj.get("items", [])
GetItems(b) == IF b.items.t = "absent" THEN <<>> ELSE b.items.v

\* NextBillRows without the comparison `val > max_bn`: the last number wins
RECURSIVE NextBillRowsLast(_, _, _)
NextBillRowsLast(rows, idx, max_bn) ==
    IF idx > Len(rows) THEN max_bn
    ELSE IF rows[idx] # <<>> /\ rows[idx][1] # None /\ PyInt(rows[idx][1]).ok
         THEN NextBillRowsLast(rows, idx + 1, PyInt(rows[idx][1]).n)
    ELSE NextBillRowsLast(rows, idx + 1, max_bn)

\* the loop of next_bill_no over the rows from idx on
RECURSIVE NextBillRows(_, _, _)
NextBillRows(rows, idx, max_bn) ==
    IF idx > Len(rows) THEN max_bn
    ELSE LET row == rows[idx] IN
         IF row = <<>> \/ row[1] = None THEN NextBillRows(rows, idx + 1, max_bn)
         ELSE LET val == PyInt(row[1]) IN
              IF val.ok /\ val.n > max_bn
              THEN NextBillRows(rows, idx + 1, val.n)
              ELSE NextBillRows(rows, idx + 1, max_bn)

\* next_bill_no(): the file after ensure_bills_file() and the number returned
next_bill_no(f) ==
    LET g == ensure_bills_file(f) IN
    [file |-> g, n |-> NextBillRows(IterRows(g.rows), 2, 0) + 1]

\* BillRows with the Qty and Rate cells of a row exchanged
BillRowsSwapped(bill_obj, nextNo, now) ==
    LET items == IF bill_obj.items.t = "absent" THEN <<>> ELSE bill_obj.items.v IN
    [k \in 1..Len(items) |->
       <<Get(bill_obj.billNo, Num(nextNo)), Get(bill_obj.dateTime, now),
         Get(items[k].name, Str(<<>>)), Get(items[k].rate, Num(0)),
         Get(items[k].qty, Num(0)), Get(items[k].amount, Num(0)),
         Get(bill_obj.total, Num(0)), Get(bill_obj.payment, Str(<<>>)),
         Get(bill_obj.table, Str(<<>>))>>]

\* the rows append_bill_to_xlsx adds for bill_obj: one per item
BillRows(bill_obj, nextNo, now) ==
    LET bn      == Get(bill_obj.billNo, Num(nextNo))
        dt      == Get(bill_obj.dateTime, now)
        payment == Get(bill_obj.payment, Str(<<>>))
        total   == Get(bill_obj.total, Num(0))
        table   == Get(bill_obj.table, Str(<<>>))
        items   == GetItems(bill_obj)
    IN [k \in 1..Len(items) |->
          <<bn, dt, Get(items[k].name, Str(<<>>)), Get(items[k].qty, Num(0)),
            Get(items[k].rate, Num(0)), Get(items[k].amount, Num(0)),
            total, payment, table>>]

\* the workbook append_bill_to_xlsx saves: the rows it loaded (wb), then the
\* bill's rows
SaveBillRows(wb, bill_obj, nextNo, now) ==
    Workbook(wb.rows \o BillRows(bill_obj, nextNo, now))

\* append_bill_to_xlsx(bill_obj) run without interruption
append_bill_to_xlsx(f, bill_obj, now) ==
    LET g == ensure_bills_file(f) IN SaveBillRows(g, bill_obj, next_bill_no(g).n, now)

AllNone(row) == \A j \in 1..Len(row) : row[j] = None

\* bills[key] of read_bills_from_xlsx: a new key gets the header fields of its
\* first row; every row adds its item
AddBillRow(bills, row) ==
    LET row3 == SubSeq(PadTo(row, 9), 1, 9)
        key  == PyStr(row3[1])
        item == [name |-> row3[3], qty |-> row3[4], rate |-> row3[5], amount |-> row3[6]]
        new  == [key |-> key, billNo |-> row3[1], dateTime |-> row3[2],
                 table |-> row3[9], payment |-> row3[8], total |-> row3[7],
                 items |-> <<>>]
        with == IF \E i \in 1..Len(bills) : bills[i].key = key
                THEN bills ELSE Append(bills, new)
    IN [i \in 1..Len(with) |->
          IF with[i].key = key THEN [with[i] EXCEPT !.items = Append(@, item)]
          ELSE with[i]]

RECURSIVE GroupBillRows(_, _, _)
GroupBillRows(rows, idx, bills) ==
    IF idx > Len(rows) THEN bills
    ELSE IF rows[idx] = <<>> \/ AllNone(rows[idx])
         THEN GroupBillRows(rows, idx + 1, bills)
    ELSE GroupBillRows(rows, idx + 1, AddBillRow(bills, rows[idx]))

\* key=lambda x: int(x.get("billNo") or 0)
SortKey(bill) == PyInt(Or(bill.billNo, Num(0)))

\* list.sort is stable: an element goes behind every element whose key is not
\* larger
RECURSIVE InsertByKey(_, _)
InsertByKey(sorted, x) ==
    IF sorted = <<>> THEN <<x>>
    ELSE IF SortKey(sorted[Len(sorted)]).n <= SortKey(x).n THEN Append(sorted, x)
    ELSE Append(InsertByKey(SubSeq(sorted, 1, Len(sorted) - 1), x), sorted[Len(sorted)])

RECURSIVE SortBills(_, _, _)
SortBills(out, idx, sorted) ==
    IF idx > Len(out) THEN sorted
    ELSE SortBills(out, idx + 1, InsertByKey(sorted, out[idx]))

\* TrySort falling back per bill: a bill whose key raises sorts as 0
TrySortPerItem(out) == SortBills(out, 1, <<>>)

\* out.sort(key=...) inside try/except: when a key raises, the list is left as
\* it was
TrySort(out) ==
    IF \A i \in 1..Len(out) : SortKey(out[i]).ok THEN SortBills(out, 1, <<>>) ELSE out

\* read_bills_from_xlsx(): the file after ensure_bills_file() and the list
read_bills_from_xlsx(f) ==
    LET g == ensure_bills_file(f) IN
    [file |-> g, out |-> TrySort(GroupBillRows(IterRows(g.rows), 2, <<>>))]

----------------------------------------------------------------------------
(* Flask handlers, each run without interruption *)

\* "billNo" not in data or not data.get("billNo")
Missing(v) == v = Absent \/ ~Truthy(v)

\* DefaultedBill with the test of billNo lacking its "not": a number the
\* caller supplied is replaced by next_bill_no()
DefaultedBillRenumber(f, data, now) ==
    [data EXCEPT !.billNo = IF data.billNo = Absent \/ Truthy(data.billNo)
                            THEN Num(next_bill_no(f).n) ELSE @,
                 !.dateTime = IF Missing(data.dateTime) THEN now ELSE @]

\* what api_bills passes to append_bill_to_xlsx: billNo and dateTime defaulted
DefaultedBill(f, data, now) ==
    [data EXCEPT !.billNo = IF Missing(data.billNo) THEN Num(next_bill_no(f).n) ELSE @,
                 !.dateTime = IF Missing(data.dateTime) THEN now ELSE @]

\* api_bills, POST: the file, the response status and the bill appended
api_bills_post(f, data, now) ==
    IF data.items.t = "other"
    THEN [file |-> f, status |-> 400, bill |-> data]
    ELSE LET f1 == IF Missing(data.billNo) THEN next_bill_no(f).file ELSE f
             d1 == DefaultedBill(f, data, now)
         IN [file |-> append_bill_to_xlsx(f1, d1, now), status |-> 200, bill |-> d1]

\* api_menu with the menu loaded before the name is checked
ApiMenuPostLoadFirst(f, payload) ==
    LET cat   == Strip(PyStr(Get(payload.category, Str(<<>>))))
        name  == Strip(PyStr(Get(payload.name, Str(<<>>))))
        p     == PyFloat(Get(payload.price, Num(0)))
        menu  == load_menu_from_xlsx(f)
        new   == SetDefaultAppend(menu.data, IF cat # <<>> THEN cat ELSE Uncategorized,
                                  [name |-> name, price |-> IF p.ok THEN p.n ELSE 0])
    IN IF name = <<>> THEN [file |-> menu.file, status |-> 400]
       ELSE [file |-> write_menu_to_xlsx(new), status |-> 200]

\* api_menu, POST: the file and the response status
api_menu_post(f, payload) ==
    LET cat   == Strip(PyStr(Get(payload.category, Str(<<>>))))
        name  == Strip(PyStr(Get(payload.name, Str(<<>>))))
        p     == PyFloat(Get(payload.price, Num(0)))
        price == IF p.ok THEN p.n ELSE 0
    IN IF name = <<>>
       THEN [file |-> f, status |-> 400]
       ELSE LET menu == load_menu_from_xlsx(f).data
                new  == SetDefaultAppend(menu, IF cat # <<>> THEN cat ELSE Uncategorized,
                                         [name |-> name, price |-> price])
            IN [file |-> write_menu_to_xlsx(new), status |-> 200]

----------------------------------------------------------------------------
(* Bounds and input domains *)

MaxRows == 2        \* data rows a file may hold before requests stop adding to it
MaxItems == 2       \* items of one posted bill

SeqsUpTo(S, k) == UNION {[1..j -> S] : j \in 0..k}

Tea == [name |-> Str(<<"Tea">>), qty |-> Num(2), rate |-> Num(20), amount |-> Num(40)]
Coffee == [name |-> Str(<<"Coffee">>), qty |-> Num(1), rate |-> Num(25), amount |-> Num(25)]

BillNoInputs == {Absent, Num(0), Num(2), Num(0 - 1), Str(<<"2">>), Str(<<"x">>)}
DateTimeInputs == {Absent}
ItemsInputs == {List(x) : x \in SeqsUpTo({Tea, Coffee}, MaxItems)} \cup {ItemsAbsent, NotAList}
NowValues == {Str(<<"now">>)}

BillInputs ==
    {[billNo |-> b, dateTime |-> d, table |-> Str(<<"Outside", Blank, "1">>),
      payment |-> Str(<<"Cash">>), total |-> Num(45), items |-> i] :
        b \in BillNoInputs, d \in DateTimeInputs, i \in ItemsInputs}

\* ledger rows that only a hand-edited bills.xlsx holds
ManualBillRows ==
    {<<None>>,
     <<None, Str(<<"now">>), Str(<<"Tea">>), Num(1), Num(20), Num(20), Num(20),
       Str(<<"Cash">>), Str(<<"Inside", Blank, "1">>)>>}

InitLedgers ==
    {NoFile, Workbook(<<BillsHeader>>)}
        \cup {Workbook(<<BillsHeader, r>>) : r \in ManualBillRows}

DataRows(f) == IF f.exists /\ f.rows # <<>> THEN Tail(f.rows) ELSE <<>>

NoBill ==
    [billNo |-> Absent, dateTime |-> Absent, table |-> Absent, payment |-> Absent,
     total |-> Absent, items |-> ItemsAbsent]

Procs == {1, 2}
Idle == [pc |-> "idle", bill |-> NoBill, wb |-> NoFile, wbOps |-> <<>>]

\* the Bill No of bill_obj as an integer, if it is one
IntBillNo(bill_obj) ==
    IF PyInt(bill_obj.billNo).ok THEN {PyInt(bill_obj.billNo).n} ELSE {}
NoRequest == [op |-> "none", status |-> 0, arg |-> Absent, ret |-> <<>>]

----------------------------------------------------------------------------
(* Requests handled one at a time: the bill ledger *)

InitBills ==
    /\ menuFile = NoFile
    /\ billsFile \in InitLedgers
    /\ rowOp = [i \in 1..Len(billsFile.rows) |-> 0]
    /\ nOps = 0
    /\ appended = {}
    /\ last = NoRequest
    /\ procs = [p \in Procs |-> Idle]

\* rowOp once ensure_bills_file() has run
EnsuredOps == IF billsFile.exists THEN rowOp ELSE <<0>>

\* POST /api/bills
PostBill(data, now) ==
    /\ Len(DataRows(billsFile)) + Len(GetItems(data)) <= MaxRows
    /\ \E r \in {api_bills_post(billsFile, data, now)} :
       LET added == Len(r.file.rows) - Len(ensure_bills_file(billsFile).rows) IN
       /\ billsFile' = r.file
       /\ nOps' = IF added > 0 THEN nOps + 1 ELSE nOps
       /\ rowOp' = IF r.status = 200
                   THEN EnsuredOps \o [k \in 1..added |-> nOps + 1]
                   ELSE rowOp
       /\ appended' = IF added > 0 THEN appended \cup IntBillNo(r.bill) ELSE appended
       /\ last' = [op |-> "post_bill", status |-> r.status, arg |-> r.bill, ret |-> <<>>]
       /\ UNCHANGED <<menuFile, procs>>

\* GET /api/bills
GetBills ==
    \E r \in {read_bills_from_xlsx(billsFile)} :
    /\ billsFile' = r.file
    /\ rowOp' = EnsuredOps
    /\ last' = [op |-> "get_bills", status |-> 200, arg |-> Absent, ret |-> r.out]
    /\ UNCHANGED <<menuFile, nOps, appended, procs>>

\* GET /api/next_bill_no
GetNext ==
    \E r \in {next_bill_no(billsFile)} :
    /\ billsFile' = r.file
    /\ rowOp' = EnsuredOps
    /\ last' = [op |-> "get_next", status |-> 200, arg |-> Absent, ret |-> r.n]
    /\ UNCHANGED <<menuFile, nOps, appended, procs>>

NextBills ==
    \/ \E data \in BillInputs, now \in NowValues : PostBill(data, now)
    \/ GetBills
    \/ GetNext

SpecBills == InitBills /\ [][NextBills]_vars

----------------------------------------------------------------------------
(* Claims about the ledger under SpecBills *)

Posted == last.op = "post_bill" /\ last.status = 200

\* the sheet rows (by index) that read_bills_from_xlsx groups under `key`
RowsOfKey(key) ==
    LET rows == IterRows(billsFile.rows) IN
    {i \in 2..Len(rows) : ~AllNone(rows[i]) /\ PyStr(rows[i][1]) = key}

BillsRead == read_bills_from_xlsx(billsFile).out

\* the lines of the bill `bill`, from position `from` on, are the items `items`
LinesMatch(bill, from, items) ==
    /\ Len(bill.items) = from + Len(items)
    /\ \A k \in 1..Len(items) :
          /\ bill.items[from + k].name = items[k].name
          /\ bill.items[from + k].qty = items[k].qty
          /\ bill.items[from + k].rate = items[k].rate
          /\ bill.items[from + k].amount = items[k].amount

\* C1: bill numbers are unique across the ledger: every bill that
\* read_bills_from_xlsx returns holds the rows of at most one append, whether
\* its billNo was defaulted from next_bill_no or supplied by the caller.
C1_BillNoUnique ==
    \A b \in 1..Len(BillsRead) :
        \A i, j \in RowsOfKey(BillsRead[b].key) :
            (rowOp[i] # 0 /\ rowOp[j] # 0) => rowOp[i] = rowOp[j]

\* C2 as stated: after append_bill_to_xlsx(b), read_bills_from_xlsx() holds a
\* bill with b's billNo, as many items as b, and b's lines in b's order.
C2_RoundTripAnyLedger ==
    Posted =>
        \E b \in 1..Len(BillsRead) :
            /\ BillsRead[b].billNo = last.arg.billNo
            /\ LinesMatch(BillsRead[b], 0, GetItems(last.arg))

\* C2 amended: after append_bill_to_xlsx(b) for a bill b with at least one item,
\* read_bills_from_xlsx() holds exactly one bill whose billNo has the string
\* form of b.billNo, and its lines end with b's lines in b's order; when no
\* earlier row is stored under that string it has b's billNo and exactly b's
\* lines.
C2_RoundTrip ==
    (Posted /\ GetItems(last.arg) # <<>>) =>
        LET key == PyStr(last.arg.billNo)
            n   == Len(GetItems(last.arg))
            hit == {b \in 1..Len(BillsRead) : BillsRead[b].key = key}
        IN /\ Cardinality(hit) = 1
           /\ \A b \in hit :
                 /\ Len(BillsRead[b].items) >= n
                 /\ LinesMatch(BillsRead[b], Len(BillsRead[b].items) - n, GetItems(last.arg))
                 /\ (\A i \in RowsOfKey(key) : rowOp[i] = nOps) =>
                        /\ BillsRead[b].billNo = last.arg.billNo
                        /\ LinesMatch(BillsRead[b], 0, GetItems(last.arg))

\* a bill with items was appended under a Bill No string that already held a
\* row
C2_Witness ==
    /\ Posted
    /\ Len(GetItems(last.arg)) >= 1
    /\ \E i \in RowsOfKey(PyStr(last.arg.billNo)) : rowOp[i] # nOps
    /\ \E i \in RowsOfKey(PyStr(last.arg.billNo)) : rowOp[i] = nOps

----------------------------------------------------------------------------
(* Reading an arbitrary ledger *)

MaxLedgerRows == 3  \* data rows of a ledger that is read

LedgerBillNos ==
    {None, Num(0 - 1), Num(2), Num(10), Str(<<"2">>), Str(<<Blank, "3">>), Str(<<"x">>)}

LedgerRow(bn, it) ==
    <<bn, Str(<<"now">>), it.name, it.qty, it.rate, it.amount, Num(45),
      Str(<<"Cash">>), Str(<<"Outside", Blank, "1">>)>>

LedgerRowInputs ==
    {LedgerRow(bn, Tea) : bn \in LedgerBillNos}
        \cup {LedgerRow(Num(2), Coffee), LedgerRow(Str(<<"2">>), Coffee), <<None>>}

InitLedger ==
    /\ menuFile = NoFile
    /\ billsFile \in {NoFile} \cup
          {Workbook(<<BillsHeader>> \o r) : r \in SeqsUpTo(LedgerRowInputs, MaxLedgerRows)}
    /\ rowOp = [i \in 1..Len(billsFile.rows) |-> 0]
    /\ nOps = 0
    /\ appended = {}
    /\ last = NoRequest
    /\ procs = [p \in Procs |-> Idle]

NextLedger == GetBills \/ GetNext

SpecLedger == InitLedger /\ [][NextLedger]_vars

SetMax(S) == CHOOSE m \in S : \A x \in S : x <= m

\* the Bill No cells of the data rows that are not empty and parse as an integer
ParsedBillNos ==
    LET rows == IterRows(billsFile.rows) IN
    {PyInt(rows[i][1]).n : i \in {j \in 2..Len(rows) : PyInt(rows[j][1]).ok}}

\* C7 as stated: next_bill_no() returns max+1 for the largest first-column cell
\* that parses as an integer, and 1 when no cell parses.
C7_MaxPlusOne ==
    last.op = "get_next" =>
        last.ret = IF ParsedBillNos = {} THEN 1 ELSE SetMax(ParsedBillNos) + 1

\* C7 amended: next_bill_no() returns max+1 where max is the largest of 0 and
\* the first-column cells that parse as an integer; empty and unparsable cells
\* are ignored, and the result is 1 when no cell parses or none is positive.
C7_MaxWithZeroPlusOne ==
    last.op = "get_next" => last.ret = SetMax(ParsedBillNos \cup {0}) + 1

\* next_bill_no() ran on a ledger whose rows hold a negative number, an
\* unparsable string and an empty cell in the Bill No column, and a larger
\* number before a smaller one
C7_Witness ==
    LET rows == IterRows(billsFile.rows) IN
    /\ last.op = "get_next"
    /\ \E i, j \in 2..Len(rows) :
          /\ i < j
          /\ PyInt(rows[i][1]).ok /\ PyInt(rows[j][1]).ok
          /\ PyInt(rows[i][1]).n > PyInt(rows[j][1]).n
          /\ PyInt(rows[j][1]).n < 0
    /\ \E i \in 2..Len(rows) : rows[i][1] \in {None, Str(<<"x">>)}

\* the data rows read_bills_from_xlsx does not skip
LiveRows == LET rows == IterRows(billsFile.rows) IN {i \in 2..Len(rows) : ~AllNone(rows[i])}
KeyOfRow(i) == PyStr(IterRows(billsFile.rows)[i][1])
FirstRow(key) == CHOOSE i \in RowsOfKey(key) : \A j \in RowsOfKey(key) : i <= j
\* the p-th row, in sheet order, stored under key
NthRow(key, p) ==
    CHOOSE i \in RowsOfKey(key) : Cardinality({j \in RowsOfKey(key) : j < i}) = p - 1
ItemOfRow(i) ==
    LET row == IterRows(billsFile.rows)[i] IN
    [name |-> row[3], qty |-> row[4], rate |-> row[5], amount |-> row[6]]

\* a Bill No the sort key cannot be computed for: not blank, and no integer
NonNumeric(v) == Truthy(v) /\ ~PyInt(v).ok
\* the integer a bill sorts by (a blank Bill No sorts as 0)
IntOf(v) == IF Truthy(v) THEN PyInt(v).n ELSE 0

\* C8: read_bills_from_xlsx() returns one bill per distinct string form of the
\* Bill No, each with the items of its rows in row order; when every Bill No
\* parses as an integer the bills are in ascending order of that integer
\* (first-seen order among equal integers; a blank Bill No sorts as 0, as the
\* key int(billNo or 0) has it), and when some Bill No is non-numeric the
\* sort is skipped and they are in first-seen order.
C8_GroupAndSort ==
    last.op = "get_bills" =>
        LET out == last.ret IN
        /\ {out[b].key : b \in 1..Len(out)} = {KeyOfRow(i) : i \in LiveRows}
        /\ \A b, c \in 1..Len(out) : out[b].key = out[c].key => b = c
        /\ \A b \in 1..Len(out) :
              /\ out[b].billNo = IterRows(billsFile.rows)[FirstRow(out[b].key)][1]
              /\ Len(out[b].items) = Cardinality(RowsOfKey(out[b].key))
              /\ \A p \in 1..Len(out[b].items) :
                    out[b].items[p] = ItemOfRow(NthRow(out[b].key, p))
        /\ IF \E b \in 1..Len(out) : NonNumeric(out[b].billNo)
           THEN \A b, c \in 1..Len(out) :
                   b < c => FirstRow(out[b].key) < FirstRow(out[c].key)
           ELSE \A b, c \in 1..Len(out) :
                   b < c =>
                      \/ IntOf(out[b].billNo) < IntOf(out[c].billNo)
                      \/ /\ IntOf(out[b].billNo) = IntOf(out[c].billNo)
                         /\ FirstRow(out[b].key) < FirstRow(out[c].key)

\* read_bills_from_xlsx() ran on a ledger with a non-numeric Bill No between two
\* numeric ones that are out of order
C8_Witness ==
    LET rows == IterRows(billsFile.rows) IN
    /\ last.op = "get_bills"
    /\ Len(last.ret) = 3
    /\ \E i, j, k \in LiveRows :
          /\ i < j /\ j < k
          /\ NonNumeric(rows[j][1])
          /\ PyInt(rows[i][1]).ok /\ PyInt(rows[k][1]).ok
          /\ PyInt(rows[i][1]).n > PyInt(rows[k][1]).n

----------------------------------------------------------------------------
(* Requests handled one at a time: the menu catalog *)

CategoryInputs == {Absent, Str(<<"Drinks">>), Str(<<Blank>>)}
NameInputs == {Absent, Str(<<Blank>>), Str(<<Blank, "Tea">>)}
PriceInputs == {Absent, Num(20), Num(0 - 5)}

MenuInputs ==
    {[category |-> c, name |-> n, price |-> p] :
        c \in CategoryInputs, n \in NameInputs, p \in PriceInputs}
    \cup {[category |-> Str(<<"Drinks">>), name |-> None, price |-> Str(<<"x">>)],
          [category |-> Str(<<"Drinks">>), name |-> Str(<<>>), price |-> Str(<<"25">>)]}

\* catalog rows that only a hand-edited menu.xlsx holds
ManualMenuRows ==
    {<<Str(<<"Drinks">>), Str(<<"Tea">>), Num(20)>>,
     <<Str(<<Blank>>), Str(<<"Coffee">>), None>>,
     <<Str(<<"Drinks">>), Str(<<"Coffee">>), Str(<<"x">>)>>}

InitMenu ==
    /\ menuFile \in {NoFile, Workbook(<<MenuHeader>>)}
                      \cup {Workbook(<<MenuHeader, r>>) : r \in ManualMenuRows}
    /\ billsFile = NoFile
    /\ rowOp = <<>>
    /\ nOps = 0
    /\ appended = {}
    /\ last = NoRequest
    /\ procs = [p \in Procs |-> Idle]

\* POST /api/menu
PostMenu(payload) ==
    \E r \in {api_menu_post(menuFile, payload)} :
    /\ r.status = 200 => Len(DataRows(menuFile)) < MaxRows
    /\ menuFile' = r.file
    /\ last' = [op |-> "post_menu", status |-> r.status, arg |-> payload, ret |-> <<>>]
    /\ UNCHANGED <<billsFile, rowOp, nOps, appended, procs>>

\* GET /api/menu
GetMenu ==
    \E r \in {load_menu_from_xlsx(menuFile)} :
    /\ menuFile' = r.file
    /\ last' = [op |-> "get_menu", status |-> 200, arg |-> Absent, ret |-> r.data]
    /\ UNCHANGED <<billsFile, rowOp, nOps, appended, procs>>

NextMenu ==
    \/ \E payload \in MenuInputs : PostMenu(payload)
    \/ GetMenu

SpecMenu == InitMenu /\ [][NextMenu]_vars

----------------------------------------------------------------------------
(* Claims about the catalog under SpecMenu *)

\* the items stored under the category cat of the menu dict data
ItemsUnder(data, cat) ==
    IF \E i \in 1..Len(data) : data[i].cat = cat
    THEN data[CHOOSE i \in 1..Len(data) : data[i].cat = cat].items
    ELSE <<>>

Count(items, item) == Cardinality({k \in 1..Len(items) : items[k] = item})

\* a payload of a string (or missing) category, a non-blank string name and a
\* price >= 0
ValidTriple(a) ==
    /\ a.category.t \in {"str", "absent"}
    /\ a.name.t = "str" /\ Strip(a.name.s) # <<>>
    /\ a.price.t = "num" /\ a.price.n >= 0

CategoryOf(a) ==
    IF a.category.t = "str" /\ Strip(a.category.s) # <<>>
    THEN Strip(a.category.s) ELSE Uncategorized

ItemOf(a) == [name |-> Strip(a.name.s), price |-> a.price.n]

\* C5: a POST catalog item of a valid triple is accepted, and the catalog
\* loaded after it holds the item under its category ("Uncategorized" when
\* blank) once more than the catalog loaded before it, as the last item of
\* that category.
C5_AddThenLoad ==
    [][(last'.op = "post_menu" /\ ValidTriple(last'.arg)) =>
          LET before == ItemsUnder(load_menu_from_xlsx(menuFile).data, CategoryOf(last'.arg))
              after  == ItemsUnder(load_menu_from_xlsx(menuFile').data, CategoryOf(last'.arg))
          IN /\ last'.status = 200
             /\ Count(after, ItemOf(last'.arg)) = Count(before, ItemOf(last'.arg)) + 1
             /\ after = Append(before, ItemOf(last'.arg))]_vars

\* a valid triple was posted whose item the category already held
C5_Witness ==
    /\ last.op = "post_menu" /\ last.status = 200
    /\ ValidTriple(last.arg)
    /\ Count(ItemsUnder(load_menu_from_xlsx(menuFile).data, CategoryOf(last.arg)),
             ItemOf(last.arg)) = 2

\* the name is missing, empty or only whitespace
BlankName(v) == v = Absent \/ (v.t = "str" /\ Strip(v.s) = <<>>)

\* C6: a POST catalog item with a blank name is rejected with status 400 and
\* leaves menu.xlsx as it was: the same rows, and still absent if it was.
C6_BlankNameRejected ==
    [][(last'.op = "post_menu" /\ BlankName(last'.arg.name)) =>
          (last'.status = 400 /\ menuFile' = menuFile)]_vars

\* a blank name was rejected while menu.xlsx did not exist
C6_Witness ==
    /\ last.op = "post_menu" /\ BlankName(last.arg.name)
    /\ last.status = 400
    /\ ~menuFile.exists

\* C9: every item load_menu_from_xlsx() returns has a non-empty name, a
\* non-empty category key and a price >= 0.
C9_ItemsValid ==
    LET data == load_menu_from_xlsx(menuFile).data IN
    \A i \in 1..Len(data) :
        /\ data[i].cat # <<>>
        /\ \A k \in 1..Len(data[i].items) :
              /\ data[i].items[k].name # <<>>
              /\ data[i].items[k].price >= 0

----------------------------------------------------------------------------
(* Loading an arbitrary catalog file *)

MaxCatalogRows == 3  \* data rows of a catalog file that is loaded

CatalogHeaders ==
    {MenuHeader, <<Str(<<"Category">>), Str(<<"Item", Blank, "Name">>)>>,
     <<Str(<<"Category">>)>>}

CatalogRowInputs ==
    {<<Str(<<"Drinks">>), Str(<<"Tea">>), Num(20)>>,
     <<Str(<<"Snacks">>), Str(<<"Vada">>), Str(<<"25">>)>>,
     <<None, Str(<<"Tea">>), Num(20)>>,
     <<Str(<<Blank>>), Str(<<"Coffee">>), None>>,
     <<Str(<<"Drinks">>), None, Num(20)>>,
     <<Str(<<"Drinks">>), Str(<<Blank>>), Num(20)>>,
     <<Str(<<"Drinks">>), Str(<<"Coffee">>), Str(<<"x">>)>>,
     <<Str(<<"Drinks">>), Str(<<"Coffee">>), Str(<<>>)>>,
     <<Str(<<"Drinks">>), Str(<<Blank, "Tea", Blank>>)>>,
     <<Str(<<"Drinks">>)>>,
     <<Num(5), Num(7), Num(3)>>}

InitCatalog ==
    /\ menuFile \in {NoFile} \cup
          {Workbook(<<h>> \o r) :
              h \in CatalogHeaders, r \in SeqsUpTo(CatalogRowInputs, MaxCatalogRows)}
    /\ billsFile = NoFile
    /\ rowOp = <<>>
    /\ nOps = 0
    /\ appended = {}
    /\ last = NoRequest
    /\ procs = [p \in Procs |-> Idle]

NextCatalog == GetMenu

SpecCatalog == InitCatalog /\ [][NextCatalog]_vars

\* the cells of sheet row i, as iter_rows yields them
MenuCells(i) == IterRows(menuFile.rows)[i]
\* cell j of sheet row i; None when the sheet is narrower
MenuCell(i, j) == IF j <= Len(MenuCells(i)) THEN MenuCells(i)[j] ELSE None
RowName(i) == IF MenuCell(i, 2) = None THEN <<>> ELSE Strip(PyStr(MenuCell(i, 2)))
RowCategory(i) ==
    LET c == IF MenuCell(i, 1) = None THEN <<>> ELSE Strip(PyStr(MenuCell(i, 1))) IN
    IF c = <<>> THEN Uncategorized ELSE c
BlankPrice(i) == MenuCell(i, 3) \in {None, Str(<<>>)}

\* the data rows C10 as stated lets survive: the price cell, if the sheet has
\* a third column, coerces to a number, and the name is not empty
SurvivesStrict(i) ==
    /\ Len(MenuCells(i)) >= 2
    /\ Len(MenuCells(i)) >= 3 => PyFloat(MenuCell(i, 3)).ok
    /\ RowName(i) # <<>>

\* the data rows that survive: as above, and a blank price cell is read as 0
Survives(i) ==
    /\ Len(MenuCells(i)) >= 2
    /\ BlankPrice(i) \/ PyFloat(MenuCell(i, 3)).ok
    /\ RowName(i) # <<>>

RowItem(i) ==
    [name |-> RowName(i), price |-> IF BlankPrice(i) THEN 0 ELSE PyFloat(MenuCell(i, 3)).n]

DataRowsOf == 2..Len(menuFile.rows)

\* the catalog `data` holds exactly the rows `kept`: one entry per category in
\* first-seen order, each with the items of its rows in file order
HoldsRows(data, kept) ==
    LET under(c) == {i \in kept : RowCategory(i) = c}
        first(c) == CHOOSE i \in under(c) : \A j \in under(c) : i <= j
        nth(c, p) == CHOOSE i \in under(c) : Cardinality({j \in under(c) : j < i}) = p - 1
    IN /\ {data[e].cat : e \in 1..Len(data)} = {RowCategory(i) : i \in kept}
       /\ \A e, g \in 1..Len(data) :
             e < g => data[e].cat # data[g].cat /\ first(data[e].cat) < first(data[g].cat)
       /\ \A e \in 1..Len(data) :
             /\ Len(data[e].items) = Cardinality(under(data[e].cat))
             /\ \A p \in 1..Len(data[e].items) :
                   data[e].items[p] = RowItem(nth(data[e].cat, p))

\* C10 as stated: load_menu_from_xlsx() skips the header row and drops every
\* data row whose price cell does not coerce to a number (never defaulting the
\* price) or whose name is empty; a blank category becomes "Uncategorized";
\* the surviving items follow file order within their category.
C10_LoadDropsUncoerciblePrice ==
    last.op = "get_menu" =>
        HoldsRows(last.ret, {i \in DataRowsOf : SurvivesStrict(i)})

\* C10 amended: as above, except that a price cell that is missing or blank
\* (None or "") is read as price 0 and the row is kept; only a non-blank price
\* cell that does not coerce to a number drops the row.
C10_LoadDefaultsBlankPrice ==
    last.op = "get_menu" =>
        HoldsRows(last.ret, {i \in DataRowsOf : Survives(i)})

\* load_menu_from_xlsx() ran on a file holding a row with a blank price, a row
\* with a price that is no number and a row without a name
C10_Witness ==
    /\ last.op = "get_menu"
    /\ \E i \in DataRowsOf : Survives(i) /\ BlankPrice(i)
    /\ \E i \in DataRowsOf :
          Len(MenuCells(i)) >= 3 /\ ~BlankPrice(i) /\ ~PyFloat(MenuCell(i, 3)).ok
    /\ \E i \in DataRowsOf : Len(MenuCells(i)) >= 2 /\ RowName(i) = <<>>

----------------------------------------------------------------------------
(* Requests served by concurrent threads: POST /api/bills runs as the steps *)
(* of api_bills and append_bill_to_xlsx, which other requests may           *)
(* interleave with; no lock guards bills.xlsx.                              *)

MaxRequests == 2    \* POST /api/bills requests that write rows

ConcBillInputs ==
    {[billNo |-> b, dateTime |-> Absent, table |-> Str(<<"Outside", Blank, "1">>),
      payment |-> Str(<<"Cash">>), total |-> Num(45), items |-> i] :
        b \in {Absent, Num(5)}, i \in {List(<<Tea>>), List(<<Coffee>>), NotAList}}

InitConc ==
    /\ menuFile = NoFile
    /\ billsFile \in {NoFile, Workbook(<<BillsHeader>>)}
    /\ rowOp = [i \in 1..Len(billsFile.rows) |-> 0]
    /\ nOps = 0
    /\ appended = {}
    /\ last = NoRequest
    /\ procs = [p \in Procs |-> Idle]

InFlight == {q \in Procs : procs[q].pc # "idle"}

\* api_bills, POST, up to the call of append_bill_to_xlsx: validation and the
\* defaults of billNo (a next_bill_no() call) and dateTime
StartBill(p, data, now) ==
    /\ procs[p].pc = "idle"
    /\ nOps + Cardinality(InFlight) < MaxRequests
    /\ IF data.items.t = "other"
       THEN /\ last' = [op |-> "post_bill", status |-> 400, arg |-> data, ret |-> <<>>]
            /\ UNCHANGED <<billsFile, rowOp, procs>>
       ELSE /\ billsFile' = IF Missing(data.billNo)
                            THEN next_bill_no(billsFile).file ELSE billsFile
            /\ rowOp' = IF Missing(data.billNo) THEN EnsuredOps ELSE rowOp
            /\ procs' = [procs EXCEPT ![p] =
                            [pc |-> "load", bill |-> DefaultedBill(billsFile, data, now),
                             wb |-> NoFile, wbOps |-> <<>>]]
            /\ UNCHANGED last
    /\ UNCHANGED <<menuFile, nOps, appended>>

\* ensure_bills_file() and wb = load_workbook(BILLS_XLSX), taken as one step
LoadBills(p) ==
    /\ procs[p].pc = "load"
    /\ billsFile' = ensure_bills_file(billsFile)
    /\ rowOp' = EnsuredOps
    /\ procs' = [procs EXCEPT ![p].pc = "save", ![p].wb = billsFile', ![p].wbOps = rowOp']
    /\ UNCHANGED <<menuFile, nOps, appended, last>>

\* the rows are appended to wb in memory and wb.save(BILLS_XLSX) replaces the
\* file; api_bills answers 200
SaveBill(p, now) ==
    /\ procs[p].pc = "save"
    /\ \E rows \in {BillRows(procs[p].bill, next_bill_no(procs[p].wb).n, now)} :
          /\ billsFile' = Workbook(procs[p].wb.rows \o rows)
          /\ rowOp' = procs[p].wbOps \o [k \in 1..Len(rows) |-> nOps + 1]
          /\ nOps' = IF rows # <<>> THEN nOps + 1 ELSE nOps
          /\ appended' = IF rows # <<>> THEN appended \cup IntBillNo(procs[p].bill)
                         ELSE appended
    /\ last' = [op |-> "post_bill", status |-> 200, arg |-> procs[p].bill, ret |-> <<>>]
    /\ procs' = [procs EXCEPT ![p] = Idle]
    /\ UNCHANGED menuFile

NextConc ==
    \/ \E p \in Procs, data \in ConcBillInputs, now \in NowValues : StartBill(p, data, now)
    \/ \E p \in Procs : LoadBills(p)
    \/ \E p \in Procs, now \in NowValues : SaveBill(p, now)
    \/ GetNext
    \/ GetBills

SpecConc == InitConc /\ [][NextConc]_vars

IsPrefix(s, u) == Len(s) <= Len(u) /\ \A i \in 1..Len(s) : s[i] = u[i]

\* C3: bill numbering never goes backwards: next_bill_no() is 1 on an empty
\* ledger, and once a bill with integer billNo n has been appended every later
\* next_bill_no() is at least n+1.
C3_NeverBackwards ==
    /\ DataRows(billsFile) = <<>> => next_bill_no(billsFile).n = 1
    /\ \A n \in appended : next_bill_no(billsFile).n >= n + 1

\* C4: the ledger is append-only: the rows of bills.xlsx before a step are a
\* prefix of its rows after the step.
C4_AppendOnly == [][IsPrefix(billsFile.rows, billsFile'.rows)]_vars


----------------------------------------------------------------------------
(* Save-bill flows of the page: saveBill() asks GET /api/next_bill_no and    *)
(* then sends POST /api/bills with the number it was given; the flows of two *)
(* tables run against the threaded server, nothing serializing them.         *)

\* the table a flow bills: ACTIVE_TABLE of its page
TableOf(p) == Str(<<"Outside", Blank>> \o NatToStr(p))

\* the carts a table may hold when its bill is saved
CartInputs == SeqsUpTo({Tea, Coffee}, 1)

RECURSIVE SumAmounts(_)
\* items.reduce((s,i)=>s+i.amount,0)
SumAmounts(items) ==
    IF items = <<>> THEN 0 ELSE Head(items).amount.n + SumAmounts(Tail(items))

\* the payload saveBill() builds around the number it was given
FlowPayload(p, cart, billNo) ==
    [billNo |-> Num(billNo), dateTime |-> Str(<<"iso">>), table |-> TableOf(p),
     payment |-> Str(<<"Cash">>), total |-> Num(SumAmounts(cart)), items |-> List(cart)]

\* saveBill(), first request: GET /api/next_bill_no answers and the payload is
\* built
FlowNext(p, cart) ==
    /\ procs[p].pc = "idle"
    /\ nOps + Cardinality(InFlight) < MaxRequests
    /\ \E r \in {next_bill_no(billsFile)} :
          /\ billsFile' = r.file
          /\ rowOp' = EnsuredOps
          /\ last' = [op |-> "get_next", status |-> 200, arg |-> Absent, ret |-> r.n]
          /\ procs' = [procs EXCEPT ![p] =
                          [pc |-> "got", bill |-> FlowPayload(p, cart, r.n),
                           wb |-> NoFile, wbOps |-> <<>>]]
    /\ UNCHANGED <<menuFile, nOps, appended>>

\* saveBill(), second request: POST /api/bills reaches api_bills, which
\* validates and defaults the payload and calls append_bill_to_xlsx
FlowPost(p, now) ==
    /\ procs[p].pc = "got"
    /\ LET data == procs[p].bill IN
       IF data.items.t = "other"
       THEN /\ last' = [op |-> "post_bill", status |-> 400, arg |-> data, ret |-> <<>>]
            /\ procs' = [procs EXCEPT ![p] = Idle]
            /\ UNCHANGED <<billsFile, rowOp>>
       ELSE /\ billsFile' = IF Missing(data.billNo)
                            THEN next_bill_no(billsFile).file ELSE billsFile
            /\ rowOp' = IF Missing(data.billNo) THEN EnsuredOps ELSE rowOp
            /\ procs' = [procs EXCEPT ![p].pc = "load",
                                      ![p].bill = DefaultedBill(billsFile, data, now)]
            /\ UNCHANGED last
    /\ UNCHANGED <<menuFile, nOps, appended>>

NextFlows ==
    \/ \E p \in Procs, cart \in CartInputs : FlowNext(p, cart)
    \/ \E p \in Procs, now \in NowValues : FlowPost(p, now)
    \/ \E p \in Procs : LoadBills(p)
    \/ \E p \in Procs, now \in NowValues : SaveBill(p, now)
    \/ GetBills

SpecFlows == InitConc /\ [][NextFlows]_vars

\* the rows of the sheet after its first k
RowsAfter(f, k) == SubSeq(f.rows, k + 1, Len(f.rows))

\* C11: bill numbering is not protected against interleaving. A flow's
\* next_bill_no() call reserves nothing: it leaves the ledger's data rows as
\* they were, so another call right after it returns the same number; the POST
\* of the flow keeps the number the flow was given whatever bills.xlsx holds by
\* then, and its rows, one per item, are saved under that number after the
\* rows the request loaded. Hence the execution C11_Witness reaches: two
\* overlapping flows are given one number and the rows of both bills are in
\* the ledger under it.
C11_NumberNotReserved ==
    [][\A p \in Procs :
         /\ (procs[p].pc = "idle" /\ procs'[p].pc = "got") =>
               /\ procs'[p].bill.billNo = Num(last'.ret)
               /\ DataRows(billsFile') = DataRows(billsFile)
               /\ next_bill_no(billsFile').n = last'.ret
         /\ (procs[p].pc = "got" /\ procs'[p].pc = "load") =>
               procs'[p].bill.billNo = procs[p].bill.billNo
         /\ (procs[p].pc = "save" /\ procs'[p].pc = "idle") =>
               LET new == RowsAfter(billsFile', Len(procs[p].wb.rows)) IN
               /\ IsPrefix(procs[p].wb.rows, billsFile'.rows)
               /\ Len(new) = Len(GetItems(procs[p].bill))
               /\ \A k \in 1..Len(new) :
                     /\ new[k][1] = procs[p].bill.billNo
                     /\ new[k][3] = GetItems(procs[p].bill)[k].name
                     /\ new[k][9] = TableOf(p)]_vars

\* both flows are over, and the ledger holds a row of each table's bill under
\* one Bill No: the number both next_bill_no() calls returned
C11_Witness ==
    /\ \A p \in Procs : procs[p].pc = "idle"
    /\ last.op = "post_bill" /\ last.status = 200
    /\ \E i, j \in 2..Len(billsFile.rows) :
          /\ billsFile.rows[i][9] = TableOf(1)
          /\ billsFile.rows[j][9] = TableOf(2)
          /\ billsFile.rows[i][1] = billsFile.rows[j][1]


----------------------------------------------------------------------------
(* POST /api/menu served by concurrent threads: api_menu runs as its         *)
(* validation, load_menu_from_xlsx() and write_menu_to_xlsx(), which other   *)
(* requests may interleave with; no lock guards menu.xlsx. Here nOps counts  *)
(* the writes of menu.xlsx, procs[p].bill holds the JSON body of the request *)
(* and procs[p].wb the workbook it loaded.                                   *)

ConcMenuInputs ==
    {[category |-> c, name |-> n, price |-> Num(20)] :
        c \in {Str(<<"Drinks">>), Str(<<Blank>>)},
        n \in {Str(<<"Tea">>), Str(<<"Coffee">>), Str(<<Blank>>)}}

InitMenuConc ==
    /\ menuFile \in {NoFile, Workbook(<<MenuHeader>>)}
                      \cup {Workbook(<<MenuHeader, r>>) : r \in ManualMenuRows}
    /\ billsFile = NoFile
    /\ rowOp = <<>>
    /\ nOps = 0
    /\ appended = {}
    /\ last = NoRequest
    /\ procs = [p \in Procs |-> Idle]

\* api_menu, POST, up to the call of load_menu_from_xlsx: the body is read
\* and a blank name is answered 400
StartMenu(p, payload) ==
    /\ procs[p].pc = "idle"
    /\ nOps + Cardinality(InFlight) < MaxRequests
    /\ IF Strip(PyStr(Get(payload.name, Str(<<>>)))) = <<>>
       THEN /\ last' = [op |-> "post_menu", status |-> 400, arg |-> payload, ret |-> <<>>]
            /\ UNCHANGED procs
       ELSE /\ procs' = [procs EXCEPT ![p] =
                            [pc |-> "mload", bill |-> payload, wb |-> NoFile, wbOps |-> <<>>]]
            /\ UNCHANGED last
    /\ UNCHANGED <<menuFile, billsFile, rowOp, nOps, appended>>

\* load_menu_from_xlsx(): ensure_menu_file() and wb = load_workbook(MENU_XLSX),
\* taken as one step; the dict is built from wb alone
LoadMenu(p) ==
    /\ procs[p].pc = "mload"
    /\ menuFile' = ensure_menu_file(menuFile)
    /\ procs' = [procs EXCEPT ![p].pc = "mwrite", ![p].wb = menuFile']
    /\ UNCHANGED <<billsFile, rowOp, nOps, appended, last>>

\* the item is appended to the dict built from wb and write_menu_to_xlsx()
\* replaces the file; api_menu answers 200
WriteMenu(p) ==
    /\ procs[p].pc = "mwrite"
    /\ \E r \in {api_menu_post(procs[p].wb, procs[p].bill)} :
          /\ menuFile' = r.file
          /\ last' = [op |-> "post_menu", status |-> r.status, arg |-> procs[p].bill,
                      ret |-> <<>>]
    /\ nOps' = nOps + 1
    /\ procs' = [procs EXCEPT ![p] = Idle]
    /\ UNCHANGED <<billsFile, rowOp, appended>>

NextMenuConc ==
    \/ \E p \in Procs, payload \in ConcMenuInputs : StartMenu(p, payload)
    \/ \E p \in Procs : LoadMenu(p)
    \/ \E p \in Procs : WriteMenu(p)
    \/ GetMenu

SpecMenuConc == InitMenuConc /\ [][NextMenuConc]_vars

\* the categories of the menu dict data
CatsOf(data) == {data[i].cat : i \in 1..Len(data)}

RECURSIVE Items(_)
\* the number of items of the menu dict data
Items(data) == IF data = <<>> THEN 0 ELSE Len(Head(data).items) + Items(Tail(data))

\* C12: catalog rewrites are last-write-wins. Every write of a POST catalog
\* item request is answered 200 and leaves as the catalog exactly the one the
\* request loaded with its own item appended under its category: whatever
\* another request wrote to menu.xlsx between this request's load and its
\* write is not in it. So when two requests both load before either writes,
\* the final catalog is the later writer's, with its item and without the
\* other's, and both were answered 200 (C12_Witness).
C12_LastWriteWins ==
    [][\A p \in Procs : (procs[p].pc = "mwrite" /\ procs'[p].pc = "idle") =>
          LET mine  == procs[p].bill
              snap  == load_menu_from_xlsx(procs[p].wb).data
              after == load_menu_from_xlsx(menuFile').data
          IN /\ last'.status = 200
             /\ CatsOf(after) = CatsOf(snap) \cup {CategoryOf(mine)}
             /\ \A c \in CatsOf(after) :
                   ItemsUnder(after, c) =
                      IF c = CategoryOf(mine)
                      THEN Append(ItemsUnder(snap, c), ItemOf(mine))
                      ELSE ItemsUnder(snap, c)
             /\ Items(after) = Items(snap) + 1]_vars

\* two requests were answered 200, neither is still running, and the catalog
\* holds one item, the later writer's: the later writer had loaded before the
\* other wrote, and the other's item is gone
C12_Witness ==
    /\ \A p \in Procs : procs[p].pc = "idle"
    /\ nOps = 2
    /\ last.op = "post_menu" /\ last.status = 200
    /\ load_menu_from_xlsx(menuFile).data =
          <<[cat |-> CategoryOf(last.arg), items |-> <<ItemOf(last.arg)>>]>>

=============================================================================
